---------------------------- MODULE Spec2Model ----------------------------
(* LaicaFM backend (backend/server.py): the shared RadioState, the          *)
(* ConnectionManager registry and its broadcast fan-out, and the handlers   *)
(* that mutate them.  The server is one asyncio event loop: a handler runs  *)
(* atomically from one await to the next, so every action below is one      *)
(* such segment of one handler; handlers interleave only at their awaits.   *)
EXTENDS Integers, Sequences, FiniteSets, TLC

(* ------------------------------ bounds -------------------------------- *)
NumSongs == 2        \* song documents in the store: ids 1..NumSongs
NumReq   == 2        \* HTTP requests that may be in flight at once
NumWS    == 2        \* WebSocket sessions of SpecConn (each connects once)
NumListeners == 1    \* WebSocket sessions of Spec
MaxTime  == 1        \* datetime.utcnow() ranges over 0..MaxTime
MaxUploads == 1      \* songs that may be uploaded in a run
MaxChat  == 2        \* chat messages that may be sent in a run

SongIds   == 1..NumSongs
UploadIds == (NumSongs + 1)..(NumSongs + MaxUploads)   \* uuids still to come
ChatIds   == 1..MaxChat          \* ChatMessage.id: uuids still to come
PlaylistIds == {1, 2}            \* playlist ids a client may name
ContentTypes == {<<"audio", "mpeg">>, <<"image", "png">>}
Positions == {-1, 0, 1}          \* "position" values a client may send

(* ------------------------- program constants -------------------------- *)
NoSong == 0          \* current_song = None
NoTime == -1         \* start_time = None

VARIABLES
    current_song,        \* RadioState.current_song: a song id or NoSong
    playlist,            \* RadioState.playlist: sequence of song ids
    is_playing,          \* RadioState.is_playing
    is_live,             \* RadioState.is_live
    listeners,           \* RadioState.listeners
    current_position,    \* RadioState.current_position
    start_time,          \* RadioState.start_time
    active_connections,  \* ConnectionManager.active_connections (a list)
    db_songs,            \* db.songs: ids of the song documents, natural order
    db_playlists,        \* db.playlists: sequence of [songs, is_active]
    uploads,             \* UPLOAD_DIR: names of the files in it
    db_chat_messages,    \* db.chat_messages: ids of the messages, in order
    now,                 \* the wall clock read by datetime.utcnow()
    received,            \* per observed client: last radio_state it was sent
    peer_gone,           \* per socket: the client side has gone away
    http,                \* per request slot: handler position and locals
    ws                   \* per socket: handler position and locals

radioVars == <<current_song, playlist, is_playing, is_live, current_position,
               start_time>>
connVars  == <<active_connections, listeners>>
dbVars    == <<db_songs, db_playlists, uploads, db_chat_messages>>
vars == <<current_song, playlist, is_playing, is_live, listeners,
          current_position, start_time, active_connections, db_songs,
          db_playlists, uploads, db_chat_messages, now, received, peer_gone,
          http, ws>>

(* ------------------------------ helpers -------------------------------- *)
SeqToSet(s) == {s[i] : i \in 1..Len(s)}

Contains(s, x) == \E i \in 1..Len(s) : s[i] = x

\* list.remove(x) on a list that holds x: drops the first occurrence
RemoveFirst(s, x) ==
    LET i == CHOOSE k \in 1..Len(s) : s[k] = x /\ \A j \in 1..(k-1) : s[j] # x
    IN  [k \in 1..(Len(s)-1) |-> IF k < i THEN s[k] ELSE s[k+1]]

\* the documents of s whose id is in the set ids, in natural order
SelectIn(s, ids) == SelectSeq(s, LAMBDA x : x \in ids)

NoMessage ==
    [type |-> "none", current_song |-> NoSong, is_playing |-> FALSE,
     is_live |-> FALSE, listeners |-> 0, current_position |-> 0]

\* broadcast_radio_state: the state_data dict
StateData(cs, ip, il, ls, cp) ==
    [type |-> "radio_state", current_song |-> cs, is_playing |-> ip,
     is_live |-> il, listeners |-> ls, current_position |-> cp]

\* locals of one running ConnectionManager.broadcast: the message, the list
\* iterator's index (entries fetched so far) and the disconnected list.  The
\* other three fields are kept by no code; they record, for the properties,
\* the registry as it was when broadcast was entered (start), the connections
\* send_text took the message for, in order (sent), and the handlers that
\* were inside a broadcast at that moment (older)
NewBroadcast(data) ==
    [message |-> data, idx |-> 0, disconnected |-> <<>>,
     start |-> <<>>, sent |-> <<>>, older |-> {}]

NoBroadcast == NewBroadcast(NoMessage)

NoPlaylist == [found |-> FALSE, songs |-> <<>>]

\* a status read that loses the song
StatusBody_DropsSong(cs, ip, il, ls, cp, pl) ==
    [current_song |-> NoSong, is_playing |-> ip, is_live |-> il,
     listeners |-> ls, current_position |-> cp, playlist_length |-> Len(pl)]

\* get_radio_status: the dict it returns
StatusBody(cs, ip, il, ls, cp, pl) ==
    [current_song |-> cs, is_playing |-> ip, is_live |-> il, listeners |-> ls,
     current_position |-> cp, playlist_length |-> Len(pl)]

NoBody == StatusBody(NoSong, FALSE, FALSE, 0, 0, <<>>)

\* a request slot: the handler's position (pc), its locals, and the response
\* once it has one (status 0: none yet)
IdleReq ==
    [pc |-> "idle", op |-> "none", active_playlist |-> NoPlaylist,
     songs |-> <<>>, was_playing |-> FALSE, had_song |-> FALSE,
     bc |-> NoBroadcast, status |-> 0, body |-> NoBody, file |-> 0,
     chat |-> 0]

\* an exception other than HTTPException left the handler
ErrorReq == [IdleReq EXCEPT !.pc = "error", !.status = 500]

\* the handler has returned, or raised HTTPException, with this status
Respond(op, code) == [IdleReq EXCEPT !.pc = "respond", !.op = op, !.status = code]

\* play_radio and next_song: the "current_song" of the dict they return
SongBody(cs) == [NoBody EXCEPT !.current_song = cs]

\* the return statement of a handler that ends with a broadcast, with cs the
\* value of radio_state.current_song when it runs
ReturnOf(op, cs) ==
    [Respond(op, 200) EXCEPT !.body = IF op \in {"play", "next"}
                                      THEN SongBody(cs) ELSE NoBody]

NewSocket == [pc |-> "new", bc |-> NoBroadcast, chat |-> 0]

(* -------------------------------- Init --------------------------------- *)
\* The process has just started: RadioState() and ConnectionManager() as
\* constructed.  The store outlives the process: it holds the songs 1..NumSongs
\* with their files and one playlist naming song 1, which is or is not the
\* active one.  reqs and socks are the HTTP requests and WebSocket sessions of
\* the run, seen the sockets whose client side is observed.
InitWith(reqs, socks, seen) ==
    /\ current_song = NoSong
    /\ playlist = <<>>
    /\ is_playing = FALSE
    /\ is_live = FALSE
    /\ listeners = 0
    /\ current_position = 0
    /\ start_time = NoTime
    /\ active_connections = <<>>
    /\ db_songs = [i \in 1..NumSongs |-> i]
    /\ \E act \in BOOLEAN :
          db_playlists = << [songs |-> <<1>>, is_active |-> act] >>
    /\ uploads = 1..NumSongs
    /\ db_chat_messages = <<>>
    /\ now = 0
    /\ received = [w \in seen |-> NoMessage]
    /\ peer_gone = [w \in socks |-> FALSE]
    /\ http = [r \in reqs |-> IdleReq]
    /\ ws = [w \in socks |-> NewSocket]

Init == InitWith(1..NumReq, 1..NumListeners, {})

InitConn == InitWith(1..NumReq, 1..NumWS, 1..NumWS)

(* ----------------------- ConnectionManager ----------------------------- *)
\* ConnectionManager.disconnect applied to st = [conns, listeners, raised]:
\* list.remove raises ValueError when the socket is not in the list, and then
\* the listener count is not recomputed
disconnect(st, c) ==
    IF st.raised THEN st
    ELSE IF Contains(st.conns, c)
         THEN [st EXCEPT !.conns = RemoveFirst(st.conns, c),
                         !.listeners = Len(st.conns) - 1]
         ELSE [st EXCEPT !.raised = TRUE]

\* the second loop of broadcast: for conn in disconnected: self.disconnect(conn)
RECURSIVE DisconnectAll(_, _)
DisconnectAll(st, disc) ==
    IF disc = <<>> THEN st
    ELSE DisconnectAll(disconnect(st, Head(disc)), Tail(disc))

\* send_text succeeds while the peer is there and the socket was not closed
\* by its handler having ended
SendOk(c) == ~peer_gone[c] /\ ws[c].pc # "ended"

\* a send loop that is left at the first send that raises
HasNext_StopsAtFailure(b, conns) ==
    b.idx < Len(conns) /\ b.disconnected = <<>>

\* the list iterator of "for connection in self.active_connections": it keeps
\* an index into the live list and compares it to the list's current length
HasNext(b, conns) == b.idx < Len(conns)

\* what a client keeps of a delivered message: the last radio_state
Deliver(rcv, c, msg, ok) ==
    IF ok /\ msg.type = "radio_state" /\ c \in DOMAIN rcv
    THEN [rcv EXCEPT ![c] = msg]
    ELSE rcv

\* one pass of the send loop up to its await: the iterator yields the next
\* entry of the live list and send_text is called on it, which hands the
\* message to the socket (a socket takes messages in the order of the calls)
\* or raises, and then the except branch appends to disconnected
SendNext(b, conns) ==
    LET c == conns[b.idx + 1]
    IN  [b EXCEPT !.idx = @ + 1,
                  !.disconnected = IF SendOk(c) THEN @ ELSE Append(@, c),
                  !.sent = IF SendOk(c) THEN Append(@, c) ELSE @]

\* the clients' side of SendNext
DeliverNext(rcv, b, conns) ==
    LET c == conns[b.idx + 1] IN Deliver(rcv, c, b.message, SendOk(c))

\* the handlers that are inside a broadcast, suspended in a send
InBroadcast ==
    {<<"http", r>> : r \in {q \in DOMAIN http : http[q].pc = "bcast"}}
      \cup {<<"ws", w>> : w \in {v \in DOMAIN ws : ws[v].pc = "bcast"}}

\* json.dumps(data) in broadcast: a song dict (Song.upload_date) and a chat
\* message dict (ChatMessage.timestamp) hold a datetime, which json.dumps
\* cannot encode and raises TypeError for
Dumpable(data) == data.type = "radio_state" /\ data.current_song = NoSong

\* broadcast entered with a non-empty registry, up to its first await
StartBroadcast(conns, data) ==
    SendNext([NewBroadcast(data) EXCEPT !.start = conns, !.older = InBroadcast],
             conns)

(* --------------------------- RadioState logic -------------------------- *)
\* play_radio without "radio_state.current_song = radio_state.playlist[0]"
PlayTransition_KeepsSong(pl, cs, ip) ==
    IF pl # <<>> /\ ~ip
    THEN [changed |-> TRUE, current_song |-> cs]
    ELSE [changed |-> FALSE, current_song |-> cs]

\* play_radio without the "radio_state.playlist" of its second condition
PlayTransition_NoPlaylistCheck(pl, cs, ip) ==
    IF ~ip
    THEN [changed |-> TRUE,
          current_song |-> IF cs = NoSong /\ pl # <<>> THEN pl[1] ELSE cs]
    ELSE [changed |-> FALSE, current_song |-> cs]

\* play_radio, "if radio_state.playlist and not radio_state.is_playing:" and
\* the assignments under it
PlayTransition(pl, cs, ip) ==
    IF pl # <<>> /\ ~ip
    THEN [changed |-> TRUE,
          current_song |-> IF cs = NoSong THEN pl[1] ELSE cs]
    ELSE [changed |-> FALSE, current_song |-> cs]

\* a pause that stops the radio altogether
PauseTransition_ClearsSong(cs, ip) ==
    [current_song |-> NoSong, is_playing |-> FALSE]

\* pause_radio, "radio_state.is_playing = False": the song and the playing
\* flag after it
PauseTransition(cs, ip) == [current_song |-> cs, is_playing |-> FALSE]

\* next_song: current_index, 1-based; 0 where the code has -1
CurrentIndex(pl, cs) ==
    IF \E i \in 1..Len(pl) : pl[i] = cs
    THEN CHOOSE i \in 1..Len(pl) : pl[i] = cs /\ \A j \in 1..(i-1) : pl[j] # cs
    ELSE 0

\* next_song wrapping to the first song after the last
NextIndex_Wraps(pl, cs) ==
    IF pl # <<>> /\ cs # NoSong
    THEN LET i == CurrentIndex(pl, cs)
         IN  IF i = 0 THEN 0 ELSE IF i < Len(pl) THEN i + 1 ELSE 1
    ELSE 0

\* next_song taking "current_index" where it should take "current_index + 1"
NextIndex_OffByOne(pl, cs) ==
    IF pl # <<>> /\ cs # NoSong
    THEN LET i == CurrentIndex(pl, cs)
         IN  IF i # 0 /\ i < Len(pl) THEN i ELSE 0
    ELSE 0

\* next_song: the index it moves to, or 0 when it does nothing
NextIndex(pl, cs) ==
    IF pl # <<>> /\ cs # NoSong
    THEN LET i == CurrentIndex(pl, cs)
         IN  IF i # 0 /\ i < Len(pl) THEN i + 1 ELSE 0
    ELSE 0

\* websocket_endpoint: the value stored for a position_update
ReportPosition(p) == p

\* db.playlists.find_one({"is_active": True})
FindActive(pls) ==
    IF \E i \in 1..Len(pls) : pls[i].is_active
    THEN LET i == CHOOSE k \in 1..Len(pls) :
                     pls[k].is_active /\ \A j \in 1..(k-1) : ~pls[j].is_active
         IN  [found |-> TRUE, songs |-> pls[i].songs]
    ELSE NoPlaylist

\* $addToSet
AddToSet(s, x) == IF Contains(s, x) THEN s ELSE Append(s, x)

\* update_one's modified_count for {"id": p} with $addToSet of s: a playlist
\* that already holds s is matched and not modified
ModifiedCount(pls, p, s) ==
    IF p \in 1..Len(pls) /\ ~Contains(pls[p].songs, s) THEN 1 ELSE 0

\* add_song_to_playlist: "if result.modified_count == 0: raise
\* HTTPException(status_code=404 ...)"
AddStatus(modified_count) == IF modified_count = 0 THEN 404 ELSE 200

\* upload_song: file.content_type.startswith('audio/')
IsAudio(ct) == ct[1] = "audio"

\* upload_song: "except Exception as e: raise HTTPException(status_code=500
\* ...)" around the whole body, for whatever was raised in it with this
\* status, the HTTPException of the type check included
UploadExcept(raised) == 500

\* uuid.uuid4(): a name that no file has yet
NewId(used) == CHOOSE n \in UploadIds \ used : \A m \in UploadIds \ used : n <= m

(* --------------------------- HTTP handlers ----------------------------- *)
\* the request leaves its handler through await manager.broadcast_radio_state()
\* with the state_data dict sd: straight through when nobody is connected,
\* with TypeError when the dict cannot be encoded
EnterBroadcast(r, op, sd) ==
    IF active_connections = <<>>
    THEN /\ http' = [http EXCEPT ![r] = ReturnOf(op, sd.current_song)]
         /\ UNCHANGED received
    ELSE IF ~Dumpable(sd)
    THEN /\ http' = [http EXCEPT ![r] = ErrorReq]
         /\ UNCHANGED received
    ELSE /\ http' = [http EXCEPT ![r] =
                       [IdleReq EXCEPT !.pc = "bcast", !.op = op,
                            !.bc = StartBroadcast(active_connections, sd)]]
         /\ received' = DeliverNext(received, NewBroadcast(sd),
                                    active_connections)

\* play_radio from "if radio_state.playlist and not radio_state.is_playing:"
\* to the return, with pl the playlist at that point
PlayTail(r, pl) ==
    LET t == PlayTransition(pl, current_song, is_playing)
    IN  IF t.changed
        THEN /\ current_song' = t.current_song
             /\ is_playing' = TRUE
             /\ start_time' = now
             /\ EnterBroadcast(r, "play",
                   StateData(t.current_song, TRUE, is_live, listeners,
                             current_position))
        ELSE /\ http' = [http EXCEPT ![r] = ReturnOf("play", current_song)]
             /\ UNCHANGED <<current_song, is_playing, start_time, received>>

\* POST /radio/play is received: up to the first await, or to the return
play_radio(r) ==
    /\ http[r].pc = "idle"
    /\ IF playlist = <<>>
       THEN /\ http' = [http EXCEPT ![r] =
                          [IdleReq EXCEPT !.pc = "find_one", !.op = "play",
                                          !.was_playing = is_playing,
                                          !.had_song = current_song # NoSong]]
            /\ UNCHANGED <<current_song, is_playing, start_time, received>>
       ELSE PlayTail(r, playlist)
    /\ UNCHANGED <<playlist, is_live, current_position, connVars, dbVars, now,
                   peer_gone, ws>>

\* the store answers db.playlists.find_one
play_find_one_query(r) ==
    /\ http[r].pc = "find_one"
    /\ http' = [http EXCEPT ![r].pc = "find_one_ret",
                            ![r].active_playlist = FindActive(db_playlists)]
    /\ UNCHANGED <<radioVars, connVars, dbVars, now, received,
                   peer_gone, ws>>

\* play_radio resumes after find_one
play_find_one_return(r) ==
    /\ http[r].pc = "find_one_ret"
    /\ IF http[r].active_playlist.found
       THEN /\ http' = [http EXCEPT ![r].pc = "find"]
            /\ UNCHANGED <<current_song, is_playing, start_time, received>>
       ELSE PlayTail(r, playlist)
    /\ UNCHANGED <<playlist, is_live, current_position, connVars, dbVars, now,
                   peer_gone, ws>>

\* the store answers db.songs.find({"id": {"$in": ...}})
play_find_query(r) ==
    /\ http[r].pc = "find"
    /\ http' = [http EXCEPT ![r].pc = "find_ret",
                            ![r].songs = SelectIn(db_songs,
                                   SeqToSet(http[r].active_playlist.songs))]
    /\ UNCHANGED <<radioVars, connVars, dbVars, now, received,
                   peer_gone, ws>>

\* play_radio resumes after find: the playlist is assigned
play_find_return(r) ==
    /\ http[r].pc = "find_ret"
    /\ playlist' = http[r].songs
    /\ PlayTail(r, http[r].songs)
    /\ UNCHANGED <<is_live, current_position, connVars, dbVars, now,
                   peer_gone, ws>>

\* POST /radio/pause
pause_radio(r) ==
    /\ http[r].pc = "idle"
    /\ LET t == PauseTransition(current_song, is_playing)
       IN  /\ is_playing' = t.is_playing
           /\ current_song' = t.current_song
           /\ EnterBroadcast(r, "pause",
                 StateData(t.current_song, t.is_playing, is_live, listeners,
                           current_position))
    /\ UNCHANGED <<playlist, is_live, current_position, start_time, connVars,
                   dbVars, now, peer_gone, ws>>

\* POST /radio/next
next_song(r) ==
    /\ http[r].pc = "idle"
    /\ LET n == NextIndex(playlist, current_song)
       IN  IF n # 0
           THEN /\ current_song' = playlist[n]
                /\ start_time' = now
                /\ current_position' = 0
                /\ EnterBroadcast(r, "next",
                      StateData(playlist[n], is_playing, is_live, listeners, 0))
           ELSE /\ http' = [http EXCEPT ![r] = ReturnOf("next", current_song)]
                /\ UNCHANGED <<current_song, start_time, current_position,
                               received>>
    /\ UNCHANGED <<playlist, is_playing, is_live, connVars, dbVars, now,
                   peer_gone, ws>>

\* the pending send_text of the request's broadcast returns: the loop goes on
\* to the next connection or, at its end, unregisters the failed ones, and
\* the handler returns
http_send(r) ==
    /\ http[r].pc = "bcast"
    /\ LET b == http[r].bc
       IN  IF HasNext(b, active_connections)
           THEN /\ http' = [http EXCEPT ![r].bc =
                              SendNext(b, active_connections)]
                /\ received' = DeliverNext(received, b, active_connections)
                /\ UNCHANGED connVars
           ELSE LET fin == DisconnectAll(
                              [conns |-> active_connections,
                               listeners |-> listeners, raised |-> FALSE],
                              b.disconnected)
                IN  /\ active_connections' = fin.conns
                    /\ listeners' = fin.listeners
                    /\ http' = [http EXCEPT ![r] =
                                  IF fin.raised THEN ErrorReq
                                  ELSE ReturnOf(http[r].op, current_song)]
                    /\ UNCHANGED received
    /\ UNCHANGED <<radioVars, dbVars, now, peer_gone, ws>>

\* the exception of a handler has become a 500 response
http_error(r) ==
    /\ http[r].pc = "error"
    /\ http' = [http EXCEPT ![r] = IdleReq]
    /\ UNCHANGED <<radioVars, connVars, dbVars, now, received,
                   peer_gone, ws>>

\* a handler's response has gone out
http_respond(r) ==
    /\ http[r].pc = "respond"
    /\ http' = [http EXCEPT ![r] = IdleReq]
    /\ UNCHANGED <<radioVars, connVars, dbVars, now, received,
                   peer_gone, ws>>

\* POST /playlists/{playlist_id}/songs/{song_id}: the update_one with
\* $addToSet and the response that its modified_count leads to
add_song_to_playlist(r, p, s) ==
    /\ http[r].pc = "idle"
    /\ db_playlists' =
          IF p \in 1..Len(db_playlists)
          THEN [db_playlists EXCEPT ![p].songs = AddToSet(@, s)]
          ELSE db_playlists
    /\ http' = [http EXCEPT ![r] =
                  Respond("add_song", AddStatus(ModifiedCount(db_playlists, p, s)))]
    /\ UNCHANGED <<radioVars, connVars, db_songs, uploads, db_chat_messages,
                   now, received, peer_gone, ws>>

\* DELETE /songs/{song_id}: the delete_one and the response its deleted_count
\* leads to; the find that follows looks for the record just deleted, gets
\* none, and so leaves the file where it is
delete_song(r, s) ==
    /\ http[r].pc = "idle"
    /\ IF Contains(db_songs, s)
       THEN /\ db_songs' = RemoveFirst(db_songs, s)
            /\ http' = [http EXCEPT ![r] = Respond("delete_song", 200)]
       ELSE /\ UNCHANGED db_songs
            /\ http' = [http EXCEPT ![r] = Respond("delete_song", 404)]
    /\ UNCHANGED <<radioVars, connVars, db_playlists, uploads,
                   db_chat_messages, now, received, peer_gone, ws>>

\* POST /songs/upload with a file of content type ct: the type check, and for
\* an audio file the writing of the file under a new name, up to insert_one
upload_song(r, ct) ==
    /\ http[r].pc = "idle"
    /\ IF ~IsAudio(ct)
       THEN /\ http' = [http EXCEPT ![r] =
                          Respond("upload", UploadExcept(400))]
            /\ UNCHANGED uploads
       ELSE /\ UploadIds \ uploads # {}
            /\ LET n == NewId(uploads)
               IN  /\ uploads' = uploads \cup {n}
                   /\ http' = [http EXCEPT ![r] =
                                 [IdleReq EXCEPT !.pc = "insert",
                                                 !.op = "upload", !.file = n]]
    /\ UNCHANGED <<radioVars, connVars, db_songs, db_playlists,
                   db_chat_messages, now, received, peer_gone, ws>>

\* upload_song resumes: db.songs.insert_one(song.dict()) and return song
upload_insert(r) ==
    /\ http[r].pc = "insert"
    /\ db_songs' = Append(db_songs, http[r].file)
    /\ http' = [http EXCEPT ![r] = Respond("upload", 200)]
    /\ UNCHANGED <<radioVars, connVars, db_playlists, uploads,
                   db_chat_messages, now, received, peer_gone, ws>>

\* GET /radio/status
get_radio_status(r) ==
    /\ http[r].pc = "idle"
    /\ http' = [http EXCEPT ![r] =
                  [Respond("status", 200) EXCEPT !.body =
                      StatusBody(current_song, is_playing, is_live, listeners,
                                 current_position, playlist)]]
    /\ UNCHANGED <<radioVars, connVars, dbVars, now, received,
                   peer_gone, ws>>

(* ------------------------- WebSocket handler --------------------------- *)
\* the texts a client may send
Messages ==
    [kind : {"position_update"}, position : Positions]
      \cup [kind : {"unknown_type", "not_json", "not_an_object"}, position : {0}]

\* the "chat" text a client may send
ChatTexts == [kind : {"chat"}, position : {0}]

\* the dict a chat handler gives to manager.broadcast; chat_msg.dict() holds
\* the datetime "timestamp" whatever the id n of the message
ChatData(n) == [type |-> "chat_message", message |-> n]

\* ChatMessage(...): the id of a new message is a fresh uuid
NewChatId ==
    LET used == {db_chat_messages[i] : i \in DOMAIN db_chat_messages}
                  \cup {http[r].chat : r \in DOMAIN http}
                  \cup {ws[w].chat : w \in DOMAIN ws}
    IN  IF ChatIds \subseteq used THEN 0
        ELSE CHOOSE n \in ChatIds \ used : \A k \in ChatIds \ used : n <= k

\* a client opens /ws: websocket_endpoint starts and suspends in
\* manager.connect at await websocket.accept()
ws_open(w) ==
    /\ ws[w].pc = "new"
    /\ ws' = [ws EXCEPT ![w].pc = "accept"]
    /\ UNCHANGED <<radioVars, connVars, dbVars, now, received,
                   peer_gone, http>>

\* ConnectionManager.connect resumes after accept(): the socket is registered
\* and the state broadcast starts, if the state can be encoded; a failed
\* accept ends the handler
ws_accept(w) ==
    /\ ws[w].pc = "accept"
    /\ IF peer_gone[w]
       THEN /\ ws' = [ws EXCEPT ![w].pc = "ended"]
            /\ UNCHANGED <<connVars, received>>
       ELSE LET sd == StateData(current_song, is_playing, is_live,
                                Len(active_connections) + 1, current_position)
            IN  /\ active_connections' = Append(active_connections, w)
                /\ listeners' = Len(active_connections')
                /\ IF Dumpable(sd)
                   THEN /\ ws' = [ws EXCEPT ![w] =
                                   [NewSocket EXCEPT
                                      !.pc = "bcast",
                                      !.bc = StartBroadcast(active_connections',
                                                            sd)]]
                        /\ received' = DeliverNext(received, NewBroadcast(sd),
                                                   active_connections')
                   ELSE \* TypeError leaves connect and the handler
                        /\ ws' = [ws EXCEPT ![w].pc = "ended"]
                        /\ UNCHANGED received
    /\ UNCHANGED <<radioVars, dbVars, now, peer_gone, http>>

\* the pending send_text of the handler's broadcast returns (see http_send);
\* an exception out of broadcast ends the handler, which then does not
\* unregister its socket
ws_send(w) ==
    /\ ws[w].pc = "bcast"
    /\ LET b == ws[w].bc
       IN  IF HasNext(b, active_connections)
           THEN /\ ws' = [ws EXCEPT ![w].bc = SendNext(b, active_connections)]
                /\ received' = DeliverNext(received, b, active_connections)
                /\ UNCHANGED connVars
           ELSE LET fin == DisconnectAll(
                              [conns |-> active_connections,
                               listeners |-> listeners, raised |-> FALSE],
                              b.disconnected)
                IN  /\ active_connections' = fin.conns
                    /\ listeners' = fin.listeners
                    /\ ws' = [ws EXCEPT ![w] =
                                [NewSocket EXCEPT
                                   !.pc = IF fin.raised THEN "ended"
                                          ELSE "recv"]]
                    /\ UNCHANGED received
    /\ UNCHANGED <<radioVars, dbVars, now, peer_gone, http>>

\* await websocket.receive_text() returns m, or raises WebSocketDisconnect
\* when the peer has gone; one pass of the while loop up to the next receive
ws_receive(w, m) ==
    /\ ws[w].pc = "recv"
    /\ IF peer_gone[w]
       THEN \* except WebSocketDisconnect: manager.disconnect(websocket)
            LET fin == disconnect([conns |-> active_connections,
                                   listeners |-> listeners, raised |-> FALSE], w)
            IN  /\ active_connections' = fin.conns
                /\ listeners' = fin.listeners
                /\ ws' = [ws EXCEPT ![w].pc = "ended"]
                /\ UNCHANGED current_position
       ELSE /\ UNCHANGED connVars
            /\ CASE m.kind = "position_update" ->
                      /\ current_position' = ReportPosition(m.position)
                      /\ UNCHANGED ws
                 [] m.kind = "chat" ->
                      \* ChatMessage(...), then the handler suspends in
                      \* await db.chat_messages.insert_one
                      /\ NewChatId # 0
                      /\ ws' = [ws EXCEPT ![w].pc = "chat_insert",
                                          ![w].chat = NewChatId]
                      /\ UNCHANGED current_position
                 [] m.kind = "not_an_object" ->
                      \* message.get raises AttributeError, caught nowhere
                      /\ ws' = [ws EXCEPT ![w].pc = "ended"]
                      /\ UNCHANGED current_position
                 [] OTHER ->
                      \* json.JSONDecodeError is passed; an unknown type
                      \* matches no branch
                      UNCHANGED <<current_position, ws>>
    /\ UNCHANGED <<current_song, playlist, is_playing, is_live, start_time,
                   dbVars, now, received, peer_gone, http>>

\* websocket_endpoint, "chat" branch: insert_one returns (ok) or raises; then
\* manager.broadcast of the chat payload. Any exception here is none of
\* JSONDecodeError and WebSocketDisconnect, so it ends the handler with the
\* socket still registered
ws_chat_insert(w, ok) ==
    /\ ws[w].pc = "chat_insert"
    /\ LET n == ws[w].chat
           data == ChatData(n)
       IN  IF ~ok
           THEN /\ ws' = [ws EXCEPT ![w] = [NewSocket EXCEPT !.pc = "ended"]]
                /\ UNCHANGED <<db_chat_messages, received>>
           ELSE /\ db_chat_messages' = Append(db_chat_messages, n)
                /\ IF active_connections = <<>>
                   THEN /\ ws' = [ws EXCEPT ![w] =
                                   [NewSocket EXCEPT !.pc = "recv"]]
                        /\ UNCHANGED received
                   ELSE IF ~Dumpable(data)
                   THEN /\ ws' = [ws EXCEPT ![w] =
                                   [NewSocket EXCEPT !.pc = "ended"]]
                        /\ UNCHANGED received
                   ELSE /\ ws' = [ws EXCEPT ![w] =
                                   [NewSocket EXCEPT
                                      !.pc = "bcast",
                                      !.bc = StartBroadcast(active_connections,
                                                            data)]]
                        /\ received' = DeliverNext(received,
                                                   NewBroadcast(data),
                                                   active_connections)
    /\ UNCHANGED <<radioVars, connVars, db_songs, db_playlists, uploads, now,
                   peer_gone, http>>

\* POST /chat/message: ChatMessage(...), then the handler suspends in
\* await db.chat_messages.insert_one
send_chat_message(r) ==
    /\ http[r].pc = "idle"
    /\ NewChatId # 0
    /\ http' = [http EXCEPT ![r] = [IdleReq EXCEPT !.pc = "chat_insert",
                                                   !.op = "chat",
                                                   !.chat = NewChatId]]
    /\ UNCHANGED <<radioVars, connVars, dbVars, now, received, peer_gone, ws>>

\* send_chat_message resumes: insert_one returns (ok) or raises; then
\* manager.broadcast of the chat payload and return chat_msg
chat_insert(r, ok) ==
    /\ http[r].pc = "chat_insert"
    /\ LET n == http[r].chat
           data == ChatData(n)
       IN  IF ~ok
           THEN /\ http' = [http EXCEPT ![r] = ErrorReq]
                /\ UNCHANGED <<db_chat_messages, received>>
           ELSE /\ db_chat_messages' = Append(db_chat_messages, n)
                /\ IF active_connections = <<>>
                   THEN /\ http' = [http EXCEPT ![r] =
                                     [Respond("chat", 200) EXCEPT !.chat = n]]
                        /\ UNCHANGED received
                   ELSE IF ~Dumpable(data)
                   THEN /\ http' = [http EXCEPT ![r] = ErrorReq]
                        /\ UNCHANGED received
                   ELSE /\ http' = [http EXCEPT ![r] =
                                     [IdleReq EXCEPT
                                        !.pc = "bcast", !.op = "chat",
                                        !.chat = n,
                                        !.bc = StartBroadcast(
                                                 active_connections, data)]]
                        /\ received' = DeliverNext(received,
                                                   NewBroadcast(data),
                                                   active_connections)
    /\ UNCHANGED <<radioVars, connVars, db_songs, db_playlists, uploads, now,
                   peer_gone, ws>>

\* the client of a socket goes away (closes, or the network drops)
peer_leaves(w) ==
    /\ ws[w].pc \in {"accept", "bcast", "recv", "chat_insert"}
    /\ ~peer_gone[w]
    /\ peer_gone' = [peer_gone EXCEPT ![w] = TRUE]
    /\ UNCHANGED <<radioVars, connVars, dbVars, now, received,
                   http, ws>>

\* time passes
Tick ==
    /\ now < MaxTime
    /\ now' = now + 1
    /\ UNCHANGED <<radioVars, connVars, dbVars, received,
                   peer_gone, http, ws>>

Handlers ==
    \/ \E r \in DOMAIN http : play_radio(r)
    \/ \E r \in DOMAIN http : play_find_one_query(r)
    \/ \E r \in DOMAIN http : play_find_one_return(r)
    \/ \E r \in DOMAIN http : play_find_query(r)
    \/ \E r \in DOMAIN http : play_find_return(r)
    \/ \E r \in DOMAIN http : pause_radio(r)
    \/ \E r \in DOMAIN http : next_song(r)
    \/ \E r \in DOMAIN http : http_send(r)
    \/ \E r \in DOMAIN http : http_error(r)
    \/ \E w \in DOMAIN ws : ws_open(w)
    \/ \E w \in DOMAIN ws : ws_accept(w)
    \/ \E w \in DOMAIN ws : ws_send(w)
    \/ \E w \in DOMAIN ws, m \in Messages : ws_receive(w, m)
    \/ \E w \in DOMAIN ws : peer_leaves(w)

Next ==
    \/ Handlers
    \/ \E r \in DOMAIN http, p \in PlaylistIds, s \in SongIds :
          add_song_to_playlist(r, p, s)
    \/ \E r \in DOMAIN http, s \in SongIds : delete_song(r, s)
    \/ \E r \in DOMAIN http : http_respond(r)
    \/ Tick

\* the radio and the store, time passing, NumListeners listeners
Spec == Init /\ [][Next]_vars

\* the texts that leave RadioState alone
PlainMessages == {m \in Messages : m.kind # "position_update"}

NextConn ==
    \/ \E r \in DOMAIN http : pause_radio(r)
    \/ \E r \in DOMAIN http : http_send(r)
    \/ \E r \in DOMAIN http : http_error(r)
    \/ \E w \in DOMAIN ws : ws_open(w)
    \/ \E w \in DOMAIN ws : ws_accept(w)
    \/ \E w \in DOMAIN ws : ws_send(w)
    \/ \E w \in DOMAIN ws, m \in PlainMessages : ws_receive(w, m)
    \/ \E w \in DOMAIN ws : peer_leaves(w)
    \/ \E r \in DOMAIN http : http_respond(r)

\* the registry and the fan-out under pause requests, every client observed
SpecConn == InitConn /\ [][NextConn]_vars

NextChat ==
    \/ \E r \in DOMAIN http : send_chat_message(r)
    \/ \E r \in DOMAIN http, ok \in BOOLEAN : chat_insert(r, ok)
    \/ \E r \in DOMAIN http : http_error(r)
    \/ \E r \in DOMAIN http : http_respond(r)
    \/ \E w \in DOMAIN ws : ws_open(w)
    \/ \E w \in DOMAIN ws : ws_accept(w)
    \/ \E w \in DOMAIN ws : ws_send(w)
    \/ \E w \in DOMAIN ws, m \in ChatTexts : ws_receive(w, m)
    \/ \E w \in DOMAIN ws, ok \in BOOLEAN : ws_chat_insert(w, ok)
    \/ \E w \in DOMAIN ws : peer_leaves(w)

\* the chat over POST /chat/message and over /ws, every client observed
SpecChat == InitConn /\ [][NextChat]_vars

InitStore == InitWith(1..NumReq, {}, {})

NextStore ==
    \/ \E r \in DOMAIN http, p \in PlaylistIds, s \in SongIds :
          add_song_to_playlist(r, p, s)
    \/ \E r \in DOMAIN http, s \in SongIds \cup UploadIds : delete_song(r, s)
    \/ \E r \in DOMAIN http, ct \in ContentTypes : upload_song(r, ct)
    \/ \E r \in DOMAIN http : upload_insert(r)
    \/ \E r \in DOMAIN http : http_respond(r)

\* the song and playlist endpoints, nobody listening
SpecStore == InitStore /\ [][NextStore]_vars

NextStatus ==
    \/ Handlers
    \/ \E r \in DOMAIN http, p \in PlaylistIds, s \in SongIds :
          add_song_to_playlist(r, p, s)
    \/ \E r \in DOMAIN http : get_radio_status(r)
    \/ \E r \in DOMAIN http : http_respond(r)

\* the radio read through GET /radio/status while it is being commanded
SpecStatus == Init /\ [][NextStatus]_vars

(* ============================ properties ============================== *)
\* no handler is between two awaits of a broadcast or of a store query, and
\* every departure of a peer has been seen by its handler
Quiescent ==
    /\ \A r \in DOMAIN http : http[r].pc = "idle"
    /\ \A w \in DOMAIN ws : ws[w].pc \in {"new", "recv", "ended"}
    /\ \A w \in DOMAIN ws : peer_gone[w] => ws[w].pc = "ended"

\* the sessions whose handler has registered and is still running
LiveSessions ==
    {w \in DOMAIN ws : ws[w].pc \in {"bcast", "recv", "chat_insert"}}

\* C1: whenever no connect, disconnect or broadcast is under way, listeners
\* equals the number of registered connections, and that number equals the
\* number of listener sessions still live, however a handler has ended.
C1_CountIsLiveSessions ==
    Quiescent =>
        /\ listeners = Len(active_connections)
        /\ Len(active_connections) = Cardinality(LiveSessions)

\* C2: in every reachable state is_playing implies that current_song is set.
C2_PlayingHasSong == is_playing => current_song # NoSong

C2_Witness ==
    /\ is_playing
    /\ current_song # NoSong
    /\ \E r \in DOMAIN http : http[r].pc = "find_ret"
    /\ \E w \in DOMAIN ws : ws[w].pc = "recv"

\* C3: whenever current_song is set and the in-memory playlist is non-empty,
\* the playlist holds an entry with current_song's id.
C3_PlaylistHoldsCurrent ==
    (current_song # NoSong /\ playlist # <<>>) =>
        \E i \in 1..Len(playlist) : playlist[i] = current_song

\* C4: current_position is never negative.
C4_PositionNonNegative == current_position >= 0

\* a segment of play_radio run by a request that was received while
\* is_playing was already true
PlayCalledWhilePlaying(r) ==
    \/ play_radio(r) /\ is_playing
    \/ play_find_one_return(r) /\ http[r].was_playing
    \/ play_find_return(r) /\ http[r].was_playing

\* C5: a play received while is_playing is true changes none of current_song,
\* playlist, is_playing, current_position and start_time.
C5_PlayWhilePlayingIsNoop ==
    [][\A r \in DOMAIN http :
         PlayCalledWhilePlaying(r) =>
             UNCHANGED <<current_song, playlist, is_playing, current_position,
                         start_time>>]_vars

\* the segment of play_radio that runs "if radio_state.playlist and not
\* radio_state.is_playing:" and returns, for a request that was received
\* while current_song was set
PlayDecides(r) ==
    \/ play_radio(r) /\ playlist # <<>> /\ current_song # NoSong
    \/ /\ play_find_one_return(r)
       /\ ~http[r].active_playlist.found
       /\ http[r].had_song
    \/ play_find_return(r) /\ http[r].had_song

\* C6: when current_song is some song A, a play leaves current_song equal to
\* A (it is never reset to playlist[0]) and leaves is_playing true.
C6_ResumeKeepsSong ==
    [][\A r \in DOMAIN http :
         (PlayDecides(r) /\ current_song # NoSong) =>
             (current_song' = current_song /\ is_playing')]_vars

\* next_song has nothing to move to: no current song, a current song that no
\* playlist entry matches by id, or the last entry
CannotAdvance ==
    \/ current_song = NoSong
    \/ \A i \in 1..Len(playlist) : playlist[i] # current_song
    \/ playlist # <<>> /\ playlist[Len(playlist)] = current_song

\* C7: when current_song is unset, not found in the playlist, or the last
\* entry, next leaves current_song, is_playing, current_position and
\* start_time unchanged (no wrap to the first song, playback not stopped).
C7_NextAtEndIsNoop ==
    [][\A r \in DOMAIN http :
         (next_song(r) /\ CannotAdvance) =>
             UNCHANGED <<current_song, is_playing, current_position,
                         start_time>>]_vars

C7_Witness ==
    /\ Len(playlist) >= 2
    /\ current_song = playlist[Len(playlist)]
    /\ is_playing
    /\ current_position # 0
    /\ start_time # now
    /\ \A r \in DOMAIN http : http[r].pc = "idle"

\* C8: when current_song is found in the playlist at index i, not the last,
\* next sets current_song to playlist[i+1] and current_position to 0; it
\* leaves the playlist alone and the new song is first found at i+1, so that
\* repeated next walks the playlist in order, one entry at a time.
C8_NextAdvancesByOne ==
    [][\A r \in DOMAIN http : \A i \in 1..(Len(playlist) - 1) :
         ( /\ next_song(r)
           /\ current_song # NoSong
           /\ playlist[i] = current_song
           /\ \A j \in 1..(i-1) : playlist[j] # current_song )
         => ( /\ current_song' = playlist[i+1]
              /\ current_position' = 0
              /\ playlist' = playlist
              /\ \A j \in 1..i : playlist'[j] # current_song' )]_vars

C8_Witness ==
    /\ Len(playlist) >= 2
    /\ current_song = playlist[2]
    /\ current_position = 0
    /\ \E r \in DOMAIN http :
          /\ http[r].pc = "respond"
          /\ http[r].op = "next"
          /\ http[r].body.current_song = playlist[2]

\* a handler enters broadcast in this step with the new state as its payload
BroadcastsNewState ==
    LET sd == StateData(current_song', is_playing', is_live', listeners',
                        current_position')
    IN  \/ \E r \in DOMAIN http :
              /\ http[r].pc # "bcast"
              /\ http'[r].pc = "bcast"
              /\ http'[r].bc.message = sd
        \/ \E w \in DOMAIN ws :
              /\ ws[w].pc # "bcast"
              /\ ws'[w].pc = "bcast"
              /\ ws'[w].bc.message = sd

\* C9: every step that changes what RadioState shows of the playback
\* (current_song, is_playing, is_live, current_position) ends by broadcasting
\* the state as it is after the change, to whoever is connected.
C9_MutationIsBroadcast ==
    [][<<current_song, is_playing, is_live, current_position>>'
          # <<current_song, is_playing, is_live, current_position>>
       => (active_connections' = <<>> \/ BroadcastsNewState)]_vars

\* a handler enters broadcast in this step with a state message that carries
\* the new listener count
BroadcastsNewCount ==
    \/ \E r \in DOMAIN http :
          /\ http[r].pc # "bcast"
          /\ http'[r].pc = "bcast"
          /\ http'[r].bc.message.type = "radio_state"
          /\ http'[r].bc.message.listeners = listeners'
    \/ \E w \in DOMAIN ws :
          /\ ws[w].pc # "bcast"
          /\ ws'[w].pc = "bcast"
          /\ ws'[w].bc.message.type = "radio_state"
          /\ ws'[w].bc.message.listeners = listeners'

\* C10: every step that changes the listener count (a connect, a disconnect
\* seen by the handler, the removal of a connection whose send failed) ends by
\* broadcasting a state that carries the new count to whoever is connected.
C10_CountChangeIsBroadcast ==
    [][listeners' # listeners
       => (active_connections' = <<>> \/ BroadcastsNewCount)]_vars

\* the step in which a handler leaves the send loop of a broadcast b, runs
\* "for conn in disconnected: self.disconnect(conn)" and leaves broadcast
BroadcastEnds(b) ==
    /\ ~HasNext(b, active_connections)
    /\ \/ \E r \in DOMAIN http : http_send(r) /\ http[r].bc = b
       \/ \E w \in DOMAIN ws : ws_send(w) /\ ws[w].bc = b

\* the broadcasts that handlers are in
Broadcasts ==
    {http[r].bc : r \in {q \in DOMAIN http : http[q].pc = "bcast"}}
      \cup {ws[w].bc : w \in {v \in DOMAIN ws : ws[v].pc = "bcast"}}

\* the entries of the sequence s that are not in the sequence f
Without(s, f) == SelectSeq(s, LAMBDA c : ~Contains(f, c))

AfterDisconnects(disc) ==
    /\ active_connections' = Without(active_connections, disc)
    /\ listeners' = Len(active_connections')

Unregistered(disc) ==
    \A i \in 1..Len(disc) : ~Contains(active_connections', disc[i])

Count(s, c) == Cardinality({i \in 1..Len(s) : s[i] = c})

\* C14: when a broadcast ends, every connection that was registered when it
\* started, is still registered and did not fail its send has been handed
\* the payload exactly once, whatever registered or unregistered meanwhile.
C14_IteratesSnapshot ==
    [][\A b \in Broadcasts :
         BroadcastEnds(b) =>
             \A i \in 1..Len(b.start) :
                 ( /\ Contains(active_connections, b.start[i])
                   /\ ~Contains(b.disconnected, b.start[i]) )
                 => Count(b.sent, b.start[i]) = 1]_vars

\* the broadcast that the handler t of InBroadcast is in
BroadcastOf(t) == IF t[1] = "http" THEN http[t[2]].bc ELSE ws[t[2]].bc

\* the broadcast of a was entered before the broadcast of b: a was inside
\* its broadcast when b entered, and b was in none when a entered
StartedBefore(a, b) ==
    /\ a \in BroadcastOf(b).older
    /\ b \notin BroadcastOf(a).older

\* in this step the handler a, resuming inside its broadcast, hands the
\* payload to connection c
HandsTo(a, c) ==
    /\ a \in InBroadcast'
    /\ BroadcastOf(a)'.sent = Append(BroadcastOf(a).sent, c)

\* C15: a connection is never handed the state of an earlier broadcast after
\* it has been handed the different state of a broadcast that was entered
\* later, when the two overlap.
C15_DeliveredInOrder ==
    [][\A a \in InBroadcast : \A c \in DOMAIN ws :
         HandsTo(a, c) =>
             ~ \E b \in InBroadcast \ {a} :
                   /\ StartedBefore(a, b)
                   /\ Contains(BroadcastOf(b).sent, c)
                   /\ BroadcastOf(b).message # BroadcastOf(a).message]_vars

\* the texts that are not a JSON object with a known type tag
Malformed == {m \in Messages : m.kind \in {"unknown_type", "not_json",
                                             "not_an_object"}}

\* C16: a text with an unrecognized tag, a text that is not JSON and a JSON
\* text that is not an object are dropped: RadioState and the registry are
\* unchanged and the handler waits for the next text, its connection still
\* registered.
C16_MalformedIsDropped ==
    [][\A w \in DOMAIN ws : \A m \in Malformed :
         (ws_receive(w, m) /\ ~peer_gone[w]) =>
             /\ UNCHANGED <<radioVars, connVars>>
             /\ ws'[w].pc = "recv"
             /\ Contains(active_connections', w)]_vars

\* C17: a status read, wherever it falls between the awaits of the other
\* handlers, changes no state and returns the current_song, is_playing,
\* current_position and playlist length of the one state it ran in, never
\* is_playing with no song; and the step that moves current_song from one
\* song to another is the step that resets the position, so no state shows
\* the new song with the previous song's position.
C17_StatusIsSnapshot ==
    [][/\ \A r \in DOMAIN http :
            get_radio_status(r) =>
                /\ UNCHANGED <<radioVars, connVars, dbVars>>
                /\ http'[r].body.current_song = current_song
                /\ http'[r].body.is_playing = is_playing
                /\ http'[r].body.current_position = current_position
                /\ http'[r].body.playlist_length = Len(playlist)
                /\ http'[r].body.is_playing =>
                       http'[r].body.current_song # NoSong
       /\ (current_song' # current_song /\ current_song # NoSong) =>
              current_position' = 0]_vars

\* a status read has its answer, taken while the radio plays its second song
\* and another request is inside play_radio, waiting for the store
C17_Witness ==
    \E r, q \in DOMAIN http :
        /\ http[r].pc = "respond"
        /\ http[r].op = "status"
        /\ http[r].body.is_playing
        /\ http[r].body.playlist_length = 2
        /\ http[r].body.current_song = playlist[2]
        /\ http[q].pc \in {"find_one", "find_one_ret", "find", "find_ret"}

\* C18: adding a song id to a playlist that exists succeeds and leaves
\* exactly one occurrence of the id in it, also when the id was already
\* there; 404 is the answer exactly when no playlist has the id given.
C18_AddIsIdempotent ==
    [][\A r \in DOMAIN http : \A p \in PlaylistIds : \A s \in SongIds :
         add_song_to_playlist(r, p, s) =>
             IF p \in 1..Len(db_playlists)
             THEN /\ Count(db_playlists'[p].songs, s) = 1
                  /\ http'[r].status = 200
             ELSE /\ http'[r].status = 404
                  /\ UNCHANGED db_playlists]_vars

\* C19: an upload whose content type is not audio is answered with a 4xx
\* status and stores no song record and no file.
C19_NonAudioIsClientError ==
    [][\A r \in DOMAIN http : \A ct \in ContentTypes :
         (upload_song(r, ct) /\ ~IsAudio(ct)) =>
             /\ http'[r].status \in 400..499
             /\ UNCHANGED <<db_songs, uploads>>]_vars

\* C20: a connection whose accept succeeds is appended to the registry, the
\* listener count is recomputed to include it and a state broadcast that
\* carries this count is entered; when that broadcast ends the new connection
\* has been handed the snapshot, if its client is still there.  A connection
\* whose accept fails is not registered.
C20_ConnectRegistersAndTells ==
    [][\A w \in DOMAIN ws :
         /\ (ws_accept(w) /\ ~peer_gone[w]) =>
                /\ active_connections' = Append(active_connections, w)
                /\ listeners' = Len(active_connections)  + 1
                /\ ws'[w].pc = "bcast"
                /\ ws'[w].bc.message.type = "radio_state"
                /\ ws'[w].bc.message.listeners = listeners'
         /\ (ws_accept(w) /\ peer_gone[w]) =>
                /\ UNCHANGED connVars
                /\ ~Contains(active_connections', w)
         /\ ( /\ ws_send(w)
               /\ ~HasNext(ws[w].bc, active_connections)
               /\ ~peer_gone[w] ) =>
                Contains(ws[w].bc.sent, w)]_vars
\* the step in which a play request that found its playlist empty learns
\* that the store has nothing for it: no active playlist, or an active one
\* whose ids match no song
NothingHydrated(r) ==
    \/ /\ http[r].pc = "find_one_ret"
       /\ ~http[r].active_playlist.found
       /\ play_find_one_return(r)
    \/ /\ http[r].pc = "find_ret"
       /\ http[r].songs = <<>>
       /\ play_find_return(r)

\* C21: a play that starts with an empty in-memory playlist and gets nothing
\* from the store (no active playlist, or an active playlist that resolves to
\* zero songs) is not an error: it ends with a 200 response whose
\* current_song is the current current_song, the playlist is empty after it,
\* and it changes neither is_playing (which is not set) nor current_song.
C21_EmptyPlayIsQuiet ==
    [][\A r \in DOMAIN http :
          NothingHydrated(r) =>
              /\ playlist' = <<>>
              /\ is_playing' = is_playing
              /\ current_song' = current_song
              /\ http'[r].pc = "respond"
              /\ http'[r].op = "play"
              /\ http'[r].status = 200
              /\ http'[r].body.current_song = current_song']_vars

C21_Witness ==
    /\ playlist = <<>>
    /\ ~is_playing
    /\ current_song = NoSong
    /\ \E r \in DOMAIN http :
          /\ http[r].pc = "respond"
          /\ http[r].op = "play"
          /\ http[r].status = 200
          /\ http[r].body.current_song = NoSong
    \* nothing was ever played, so this play had nothing to hydrate from:
    \* the active playlist of the store resolves to zero songs
    /\ start_time = NoTime
    /\ FindActive(db_playlists).found

\* a step of the pause request r: the handler up to its broadcast, or a
\* send of that broadcast returning
PauseEntry(r) == pause_radio(r)
PauseSend(r) == http[r].pc = "bcast" /\ http[r].op = "pause" /\ http_send(r)

\* C22 as stated: pause sets is_playing to false and changes nothing else:
\* current_song, playlist, current_position, is_live and listeners are as
\* they were, in every step of the handler.
C22_PauseChangesOnlyPlaying ==
    [][\A r \in DOMAIN http :
          /\ PauseEntry(r) =>
                /\ is_playing' = FALSE
                /\ UNCHANGED <<current_song, playlist, current_position,
                               is_live, listeners>>
          /\ PauseSend(r) =>
                UNCHANGED <<is_playing, current_song, playlist,
                            current_position, is_live, listeners>>]_vars

\* C22, amended: pause sets is_playing to false from any state and leaves
\* current_song, playlist, current_position and is_live unchanged; listeners
\* changes only at the end of the handler's broadcast, when connections whose
\* send failed are unregistered, and then only downwards to the size of the
\* registry; a pause of a radio that is not playing changes nothing of
\* RadioState before its broadcast.
C22_PauseFrame ==
    [][\A r \in DOMAIN http :
          /\ PauseEntry(r) =>
                /\ is_playing' = FALSE
                /\ UNCHANGED <<current_song, playlist, current_position,
                               is_live, listeners>>
                /\ ~is_playing => UNCHANGED <<radioVars, connVars>>
          /\ PauseSend(r) =>
                /\ UNCHANGED <<is_playing, current_song, playlist,
                               current_position, is_live>>
                /\ listeners' # listeners =>
                      /\ ~HasNext(http[r].bc, active_connections)
                      /\ http[r].bc.disconnected # <<>>
                      /\ listeners' < listeners
                      /\ listeners' = Len(active_connections')]_vars

\* two pauses of a playing radio have run, and the song is still there
C22_Witness ==
    /\ ~is_playing
    /\ current_song # NoSong
    /\ playlist # <<>>
    /\ start_time # NoTime
    /\ \E r, q \in DOMAIN http :
          /\ r # q
          /\ http[r].pc = "respond" /\ http[r].op = "pause"
          /\ http[q].pc = "respond" /\ http[q].op = "pause"

\* the chat messages of the store
Stored == {db_chat_messages[i] : i \in DOMAIN db_chat_messages}

\* C23: a chat message, posted over HTTP or sent over a live connection, is
\* persisted to the store before it is broadcast and the payload of the
\* broadcast is the persisted message: when its insert has succeeded and
\* somebody is connected, the handler goes on to send that message to the
\* connections; no broadcast ever carries a chat message that is not in the
\* store; and a failed insert stores nothing and starts no broadcast.
C23_ChatIsStoredThenBroadcast ==
    [][/\ \A r \in DOMAIN http :
            /\ chat_insert(r, TRUE) =>
                  /\ http[r].chat \in Stored'
                  /\ active_connections # <<>> =>
                        /\ http'[r].pc = "bcast"
                        /\ http'[r].bc.message = ChatData(http[r].chat)
            /\ chat_insert(r, FALSE) =>
                  /\ UNCHANGED db_chat_messages
                  /\ http'[r].pc # "bcast"
       /\ \A w \in DOMAIN ws :
            /\ ws_chat_insert(w, TRUE) =>
                  /\ ws[w].chat \in Stored'
                  /\ active_connections # <<>> =>
                        /\ ws'[w].pc = "bcast"
                        /\ ws'[w].bc.message = ChatData(ws[w].chat)
            /\ ws_chat_insert(w, FALSE) =>
                  /\ UNCHANGED db_chat_messages
                  /\ ws'[w].pc # "bcast"
       /\ \A b \in Broadcasts' :
            b.message.type = "chat_message" => b.message.message \in Stored'
      ]_vars

\* C24: once current_song has been set no step clears it, whatever is played,
\* paused, skipped, reported, connected or disconnected, so that "no song,
\* not playing" is not seen again after the first successful play; and
\* is_live is false in every reachable state.
C24_SongIsNeverCleared ==
    [][/\ current_song # NoSong => current_song' # NoSong
       /\ ~is_live /\ ~is_live']_vars

\* a song survives a pause, the loss of the playlist, a position report and
\* the end of its listener's session
C24_Witness ==
    /\ current_song # NoSong
    /\ ~is_playing
    /\ playlist = <<>>
    /\ current_position # 0
    /\ \E w \in DOMAIN ws : ws[w].pc = "ended"
    /\ \A r \in DOMAIN http : http[r].pc = "idle"

=============================================================================
